---- MODULE Spec2Model ----
(***************************************************************************)
(* Click payment callback protocol of komaaa24/shavclick:                   *)
(* src/src/controllers/click.controller.js (clickPrepare, clickComplete,    *)
(* syncPaymentStatusFromClick, reversePayment, clickReturnCallback) over    *)
(* the payments table of src/src/db/migrations.sql.                         *)
(*                                                                         *)
(* The payment repository (../repositories/payment.repository) and the      *)
(* signature helper (../utils/clickAuth) are not part of the sources at     *)
(* hand; they are modelled from the written specification (sections 4.1,    *)
(* 4.3 and 6) and marked so in the model map.                               *)
(***************************************************************************)
EXTENDS Integers, Sequences, FiniteSets, Bags, TLC

(***************************************************************************)
(* Bounds of the model.                                                     *)
(***************************************************************************)
\* payments that are ever created
MaxPayments == 1
\* request fields that differ from a well-formed callback of some payment
MaxDeviations == 2
\* handlers that may be in flight at once
MaxWorkers == 2

(***************************************************************************)
(* JavaScript values of a request body: absent (undefined), a number or a   *)
(* string.  Every value is a record of the same shape.                      *)
(***************************************************************************)
Undef == [t |-> "undef", n |-> 0, s |-> ""]
Num(k) == [t |-> "num", n |-> k, s |-> ""]
Str(x) == [t |-> "str", n |-> 0, s |-> x]
\* JSON null: a field that is present with the value null
Null == [t |-> "null", n |-> 0, s |-> ""]

\* the integers the model's strings may denote
NumberRange == -10 .. 210

Digit == <<"0", "1", "2", "3", "4", "5", "6", "7", "8", "9">>

RECURSIVE NatText(_)
NatText(k) == IF k < 10 THEN Digit[k + 1] ELSE NatText(k \div 10) \o Digit[(k % 10) + 1]

\* String(k) / `${k}` of an integer
DecimalText(k) == IF k < 0 THEN "-" \o NatText(0 - k) ELSE NatText(k)

\* strings that are the decimal text of an integer, with the integer
NumericText == [k \in NumberRange |-> DecimalText(k)]

\* a JavaScript number: NaN or an integer
NaN == [nan |-> TRUE, n |-> 0]
Finite(k) == [nan |-> FALSE, n |-> k]

\* Number(v)
ToNumber(v) ==
    CASE v.t = "num" -> Finite(v.n)
      [] v.t = "undef" -> NaN
      [] v.t = "null" -> Finite(0)
      [] v.t = "str" ->
            IF v.s = "" THEN Finite(0)
            ELSE IF \E k \in NumberRange : NumericText[k] = v.s
                 THEN Finite(CHOOSE k \in NumberRange : NumericText[k] = v.s)
                 ELSE NaN

\* a !== b on numbers (NaN differs from everything, itself included)
NumStrictNeq(a, b) == a.nan \/ b.nan \/ a.n # b.n

\* !v is false
Truthy(v) == (v.t = "num" /\ v.n # 0) \/ (v.t = "str" /\ v.s # "")

\* v == null
IsNullish(v) == v.t \in {"undef", "null"}

\* `${v}`
TextOf(v) ==
    CASE v.t = "num" -> DecimalText(v.n)
      [] v.t = "str" -> v.s
      [] v.t = "undef" -> "undefined"
      [] v.t = "null" -> "null"

(***************************************************************************)
(* Configuration and protocol constants.                                    *)
(***************************************************************************)
ACTION_PREPARE == 0
ACTION_COMPLETE == 1

\* config.click.serviceId and config.click.secretKey
ConfigServiceId == 33
ConfigSecretKey == "secret"


(***************************************************************************)
(* The payments table: a sequence indexed by the SERIAL id.                 *)
(***************************************************************************)
VARIABLES
    payments,   \* rows of the payments table, payments[i].id = i
    workers,    \* the concurrent system: the handlers in flight
    outbox,     \* the concurrent system: the response being sent
    inbox,      \* the sequential system: the request being delivered
    trail,      \* per delivery of that request: the response and the table after it
    before      \* the payments table when that request was first delivered

vars == <<payments, workers, outbox, inbox, trail, before>>

Statuses == {"PENDING", "PAID", "CANCELED", "FAILED"}
TerminalStatuses == {"PAID", "CANCELED", "FAILED"}

\* amounts a payment is created with
PaymentAmounts == {100}

\* crypto.randomUUID() of the i-th payment: unique per payment
MerchantTransIdOf(i) == "mti-" \o DecimalText(i)

\* the row a lookup returns when there is none (null)
NoPayment ==
    [id |-> 0, amount |-> 0, click_merchant_trans_id |-> "",
     click_payment_id |-> Undef, status |-> "NONE"]

\* INSERT INTO payments: status defaults to PENDING, click_payment_id to NULL
NewPayment(i, amount) ==
    [id |-> i, amount |-> amount, click_merchant_trans_id |-> MerchantTransIdOf(i),
     click_payment_id |-> Undef, status |-> "PENDING"]

\* paymentRepo.getPaymentByMerchantTransId
GetPaymentByMerchantTransId(pays, mti) ==
    IF mti.t = "str" /\ \E i \in DOMAIN pays : pays[i].click_merchant_trans_id = mti.s
    THEN pays[CHOOSE i \in DOMAIN pays : pays[i].click_merchant_trans_id = mti.s]
    ELSE NoPayment

\* paymentRepo.getPaymentById
GetPaymentById(pays, id) == IF id \in DOMAIN pays THEN pays[id] ELSE NoPayment

\* variant: an update by id alone, with no guard on the stored status
UpdateGuardMissing(pays, id) == id \in DOMAIN pays

\* the guard of the conditional update: the stored status is not terminal
UpdateGuard(pays, id) == id \in DOMAIN pays /\ pays[id].status \notin TerminalStatuses

\* the gateway payment id as stored: the given one, or the stored one if none is given
StoredClickPaymentId(row, clickPaymentId) ==
    IF clickPaymentId.t = "undef" THEN row.click_payment_id
    ELSE Num(ToNumber(clickPaymentId).n)

\* variant: the update applied whatever the stored status is
UpdateUnconditional(pays, id, status, clickPaymentId) ==
    IF id \in DOMAIN pays
    THEN [pays EXCEPT ![id] =
            [@ EXCEPT !.status = status,
                      !.click_payment_id = StoredClickPaymentId(pays[id], clickPaymentId)]]
    ELSE pays

\* paymentRepo.updatePaymentStatusById(id, status, { clickPaymentId }):
\* one conditional update; the table is left as it is when the guard fails
UpdatePaymentStatusById(pays, id, status, clickPaymentId) ==
    IF UpdateGuard(pays, id)
    THEN [pays EXCEPT ![id] =
            [@ EXCEPT !.status = status,
                      !.click_payment_id = StoredClickPaymentId(pays[id], clickPaymentId)]]
    ELSE pays

(***************************************************************************)
(* Signature: md5 over the concatenated fields, lowercase hex.  The digest  *)
(* of a text is modelled as the tagged text: equal texts give equal         *)
(* digests, different texts different ones.                                 *)
(***************************************************************************)
Md5Hex(text) == "md5:" \o text

\* buildClickMd5Signature without merchantPrepareId (PREPARE)
PrepareSignature(body, secretKey) ==
    Md5Hex(TextOf(body.click_trans_id) \o TextOf(body.service_id) \o secretKey
           \o TextOf(body.merchant_trans_id) \o TextOf(body.amount)
           \o TextOf(body.action) \o TextOf(body.sign_time))

\* buildClickMd5Signature with merchantPrepareId (COMPLETE)
CompleteSignature(body, secretKey) ==
    Md5Hex(TextOf(body.click_trans_id) \o TextOf(body.service_id) \o secretKey
           \o TextOf(body.merchant_trans_id) \o TextOf(body.merchant_prepare_id)
           \o TextOf(body.amount) \o TextOf(body.action) \o TextOf(body.sign_time))

\* expectedSign !== sign_string is false
SignMatches(expectedSign, sign_string) ==
    sign_string.t = "str" /\ sign_string.s = expectedSign

(***************************************************************************)
(* Responses.                                                               *)
(***************************************************************************)
\* res.json({ error, error_note, ...payload })
ClickJson(code, note, ctid, mti, prepareId, confirmId) ==
    [kind |-> "click", error |-> code, error_note |-> note,
     click_trans_id |-> ctid, merchant_trans_id |-> mti,
     merchant_prepare_id |-> prepareId, merchant_confirm_id |-> confirmId]

\* clickError(res, code, note)
ClickError(code, note) == ClickJson(code, note, Undef, Undef, 0, 0)

\* a response that is no Click body: an HTTP status, a page, or an exception
\* that left the handler
Other(kind) == [ClickJson(0, "", Undef, Undef, 0, 0) EXCEPT !.kind = kind]

\* an exception that left the handler (answered by the error middleware)
Thrown == Other("thrown")


(***************************************************************************)
(* What a handler decides: its answer, and the store write it makes before  *)
(* answering, if any.                                                       *)
(***************************************************************************)
\* a handler that answers without writing
Answer(r) == [write |-> FALSE, id |-> 0, status |-> "NONE", clickPaymentId |-> Undef,
              reply |-> r]

\* a handler that writes and then answers
WriteThenAnswer(id, status, clickPaymentId, r) ==
    [write |-> TRUE, id |-> id, status |-> status, clickPaymentId |-> clickPaymentId,
     reply |-> r]

(***************************************************************************)
(* clickPrepare                                                             *)
(***************************************************************************)
\* !click_trans_id || !service_id || !merchant_trans_id || !amount || action == null
PrepareMissingParameters(body) ==
    \/ ~Truthy(body.click_trans_id)
    \/ ~Truthy(body.service_id)
    \/ ~Truthy(body.merchant_trans_id)
    \/ ~Truthy(body.amount)
    \/ IsNullish(body.action)

\* Number(service_id) !== Number(config.click.serviceId)
InvalidServiceId(body) == NumStrictNeq(ToNumber(body.service_id), Finite(ConfigServiceId))

\* Number(action) !== CLICK_ACTION.X
InvalidAction(body, expected) == NumStrictNeq(ToNumber(body.action), Finite(expected))

\* variant: the signature comparison left out
SignatureNotChecked(body) == FALSE

\* expectedSign !== sign_string in clickPrepare
PrepareInvalidSignature(body) ==
    ~SignMatches(PrepareSignature(body, ConfigSecretKey), body.sign_string)

\* variant: the lookup's result used without the null check
NotFoundSkipped(payment) == FALSE

\* !payment
NotFound(payment) == payment = NoPayment

\* variant: a payment still PENDING counts as processed too
AlreadyProcessedOrPending(payment) == payment.status \in {"PAID", "PENDING"}

\* payment.status === 'PAID'
AlreadyProcessed(payment) == payment.status = "PAID"

\* variant: payment.amount !== amount, without the conversions (the body's
\* amount must then be the very number)
InvalidAmountStrict(payment, body) == body.amount # Num(payment.amount)

\* variant: only an underpayment is refused
InvalidAmountUnderOnly(payment, body) ==
    ToNumber(body.amount).nan \/ ToNumber(body.amount).n < payment.amount

\* Number(payment.amount) !== Number(amount)
InvalidAmount(payment, body) == NumStrictNeq(Finite(payment.amount), ToNumber(body.amount))

\* the response of clickPrepare to `body` when the table is `pays`
ClickPrepareReply(body, pays) ==
    LET payment == GetPaymentByMerchantTransId(pays, body.merchant_trans_id) IN
    IF PrepareMissingParameters(body) THEN ClickError(-8, "Missing required parameters")
    ELSE IF InvalidServiceId(body) THEN ClickError(-8, "Invalid service_id")
    ELSE IF InvalidAction(body, ACTION_PREPARE) THEN ClickError(-3, "Invalid action")
    ELSE IF PrepareInvalidSignature(body) THEN ClickError(-1, "Invalid signature")
    ELSE IF NotFound(payment) THEN ClickError(-5, "Payment not found")
    ELSE IF AlreadyProcessed(payment) THEN ClickError(-4, "Payment already processed")
    ELSE IF InvalidAmount(payment, body) THEN ClickError(-2, "Invalid amount")
    ELSE ClickJson(0, "Success", body.click_trans_id, body.merchant_trans_id,
                   payment.id, 0)

\* variant: a PREPARE that records the gateway's transaction id on success
PrepareThatRecords(body, pays) ==
    LET r == ClickPrepareReply(body, pays) IN
    IF r.error = 0
    THEN WriteThenAnswer(r.merchant_prepare_id, "PENDING", body.click_trans_id, r)
    ELSE Answer(r)

\* variant: a PREPARE that records the gateway's transaction id before it
\* checks the amount
PrepareThatRecordsBeforeAmountCheck(body, pays) ==
    LET r == ClickPrepareReply(body, pays) IN
    IF r.error = -2
    THEN WriteThenAnswer(GetPaymentByMerchantTransId(pays, body.merchant_trans_id).id,
                         "PENDING", body.click_trans_id, r)
    ELSE Answer(r)

\* clickPrepare: it answers and writes nothing
ClickPrepareDecision(body, pays) == Answer(ClickPrepareReply(body, pays))

(***************************************************************************)
(* clickComplete: the checks up to the store write, then the write.         *)
(***************************************************************************)
\* !click_trans_id || !service_id || !merchant_trans_id || !merchant_prepare_id
\*   || action == null
CompleteMissingParameters(body) ==
    \/ ~Truthy(body.click_trans_id)
    \/ ~Truthy(body.service_id)
    \/ ~Truthy(body.merchant_trans_id)
    \/ ~Truthy(body.merchant_prepare_id)
    \/ IsNullish(body.action)

\* variant: clickComplete without its signature check
CompleteSignatureNotChecked(body) == FALSE

\* expectedSign !== sign_string in clickComplete
CompleteInvalidSignature(body) ==
    ~SignMatches(CompleteSignature(body, ConfigSecretKey), body.sign_string)

\* payment.id !== Number(merchant_prepare_id)
PrepareIdMismatch(payment, body) ==
    NumStrictNeq(Finite(payment.id), ToNumber(body.merchant_prepare_id))

\* error && Number(error) !== 0
ProviderError(body) == Truthy(body.error) /\ NumStrictNeq(ToNumber(body.error), Finite(0))

\* variant: the two statuses the other way round
ProviderErrorStatusSwapped(body) ==
    IF ~ToNumber(body.error).nan /\ ToNumber(body.error).n < 0 THEN "FAILED" ELSE "CANCELED"

\* Number(error) < 0 ? 'CANCELED' : 'FAILED'
ProviderErrorStatus(body) ==
    IF ~ToNumber(body.error).nan /\ ToNumber(body.error).n < 0 THEN "CANCELED" ELSE "FAILED"

\* clickComplete from its start to the await of the store write (or to its answer)
ClickCompleteDecision(body, pays) ==
    LET payment == GetPaymentByMerchantTransId(pays, body.merchant_trans_id) IN
    IF CompleteMissingParameters(body)
    THEN Answer(ClickError(-8, "Missing required parameters"))
    ELSE IF InvalidServiceId(body) THEN Answer(ClickError(-8, "Invalid service_id"))
    ELSE IF InvalidAction(body, ACTION_COMPLETE) THEN Answer(ClickError(-3, "Invalid action"))
    ELSE IF CompleteInvalidSignature(body) THEN Answer(ClickError(-1, "Invalid signature"))
    ELSE IF NotFound(payment) THEN Answer(ClickError(-5, "Payment not found"))
    ELSE IF PrepareIdMismatch(payment, body) THEN Answer(ClickError(-5, "Payment not found"))
    ELSE IF AlreadyProcessed(payment)
    THEN Answer(ClickError(-4, "Payment already processed"))
    ELSE IF ProviderError(body)
    THEN WriteThenAnswer(payment.id, ProviderErrorStatus(body), body.click_trans_id,
            ClickJson(ToNumber(body.error).n, "Failed", body.click_trans_id,
                      body.merchant_trans_id, 0, payment.id))
    ELSE IF InvalidAmount(payment, body) THEN Answer(ClickError(-2, "Invalid amount"))
    ELSE WriteThenAnswer(payment.id, "PAID", body.click_trans_id,
            ClickJson(0, "Success", body.click_trans_id, body.merchant_trans_id,
                      0, payment.id))

\* the table after the handler's store write, if it makes one
TableAfter(d, pays) ==
    IF d.write THEN UpdatePaymentStatusById(pays, d.id, d.status, d.clickPaymentId)
    ELSE pays

\* whether that write takes effect (the update returns the row, not the
\* concurrent-modification signal); no handler looks at what it returns
Applied(d, pays) == d.write /\ UpdateGuard(pays, d.id)

(***************************************************************************)
(* Status synchronization, the return page and reversal.                    *)
(***************************************************************************)
\* what the gateway's status query may answer: payment_id and payment_status,
\* or a failure (network error, non-2xx) that clickApiRequest throws
GatewayPaymentIds == {Undef, Num(9)}
GatewayPaymentStatuses == {Undef, Num(0), Num(1)}
GatewayAnswers ==
    [failed : BOOLEAN, payment_id : GatewayPaymentIds,
     payment_status : GatewayPaymentStatuses]

\* variant: every gateway status is taken for PENDING
MapEveryStatusToPending(clickPaymentStatus) == "PENDING"

\* mapClickPaymentStatusToLocal
MapClickPaymentStatusToLocal(clickPaymentStatus) ==
    IF clickPaymentStatus = Num(1) THEN "PAID" ELSE "PENDING"

\* response && response.payment_id ? Number(response.payment_id) : null
ClickPaymentIdOf(gw) ==
    IF Truthy(gw.payment_id) THEN Num(ToNumber(gw.payment_id).n) ELSE Undef

\* typeof response.payment_status === 'number' ? response.payment_status : null
ClickPaymentStatusOf(gw) ==
    IF gw.payment_status.t = "num" THEN gw.payment_status ELSE Undef

\* the write both synchronizations make once the gateway has answered
StatusWrite(id, gw, r) ==
    IF ~IsNullish(ClickPaymentStatusOf(gw))
    THEN WriteThenAnswer(id, MapClickPaymentStatusToLocal(ClickPaymentStatusOf(gw)),
                         ClickPaymentIdOf(gw), r)
    ELSE Answer(r)

\* variant: the answer of a failed call is used all the same
SyncWritesDespiteFailure(id, gw) ==
    StatusWrite(id, gw, IF gw.failed THEN Thrown ELSE Other("synced"))

\* syncPaymentStatusFromClick after the gateway's answer: a failed call throws
SyncAfterQuery(id, gw) ==
    IF gw.failed THEN Answer(Thrown) ELSE StatusWrite(id, gw, Other("synced"))

\* syncPaymentStatusFromClick
SyncDecision(payment, gw) ==
    IF payment = NoPayment THEN Answer(Other("http404"))
    ELSE SyncAfterQuery(payment.id, gw)

\* clickReturnCallback after the gateway's answer: a failure is caught and ignored
ReturnAfterQuery(id, gw) ==
    IF gw.failed THEN Answer(Other("page")) ELSE StatusWrite(id, gw, Other("page"))

\* clickReturnCallback
ReturnDecision(payment, gw) ==
    IF payment = NoPayment THEN Answer(Other("page"))
    ELSE ReturnAfterQuery(payment.id, gw)

\* reversePayment up to the gateway call: the answers it gives without calling
ReverseRefusal(payment) ==
    IF payment = NoPayment THEN Other("http404")
    ELSE IF ~Truthy(payment.click_payment_id) THEN Other("http409")
    ELSE Other("none")

\* reversePayment after the gateway call
ReverseAfterCall(id, failed) ==
    IF failed THEN Answer(Thrown)
    ELSE WriteThenAnswer(id, "CANCELED", Undef, Other("reversed"))

\* reversePayment
ReverseDecision(payment, failed) ==
    IF ReverseRefusal(payment).kind # "none" THEN Answer(ReverseRefusal(payment))
    ELSE ReverseAfterCall(payment.id, failed)

(***************************************************************************)
(* The unified endpoint and the handlers that only read.                    *)
(***************************************************************************)
\* variant: the action compared as it is sent, without conversion to a number
RouteWithoutConversion(body) ==
    IF body.action = Num(ACTION_PREPARE) THEN "prepare"
    ELSE IF body.action = Num(ACTION_COMPLETE) THEN "complete"
    ELSE "single"

\* clickSingleEndpoint: Number(req.body.action) chooses the handler
ClickSingleEndpointRoute(body) ==
    IF ~NumStrictNeq(ToNumber(body.action), Finite(ACTION_PREPARE)) THEN "prepare"
    ELSE IF ~NumStrictNeq(ToNumber(body.action), Finite(ACTION_COMPLETE)) THEN "complete"
    ELSE "single"

\* clickSingleEndpoint: the chosen handler's decision, or its own rejection
ClickSingleEndpointDecision(body, pays) ==
    CASE ClickSingleEndpointRoute(body) = "prepare" -> ClickPrepareDecision(body, pays)
      [] ClickSingleEndpointRoute(body) = "complete" -> ClickCompleteDecision(body, pays)
      [] OTHER -> Answer(ClickError(-3, "Invalid action"))

\* getPayment: the row, or 404
GetPaymentDecision(payment) ==
    IF payment = NoPayment THEN Answer(Other("http404")) ELSE Answer(Other("payment"))

\* redirectToClick: a redirect to the pay URL of the row, or 404
RedirectToClickDecision(payment) ==
    IF payment = NoPayment THEN Answer(Other("http404")) ELSE Answer(Other("redirect"))

\* createInvoice / getInvoiceStatus: the gateway's answer relayed, or its
\* failure thrown; the store is not touched
InvoiceDecision(failed) == IF failed THEN Answer(Thrown) ELSE Answer(Other("invoice"))

(***************************************************************************)
(* The request bodies the model delivers: the well-formed callback of a     *)
(* payment, changed in at most MaxDeviations places.                        *)
(***************************************************************************)
PaymentIds == 1 .. MaxPayments

SignTimeText == "2024-01-01 10:00:00"

FieldValues ==
    [click_trans_id |-> {Undef, Num(7)},
     service_id |-> {Undef, Num(ConfigServiceId), Num(ConfigServiceId + 1)},
     merchant_trans_id |->
        {Undef, Str("mti-none")} \cup {Str(MerchantTransIdOf(i)) : i \in PaymentIds},
     merchant_prepare_id |-> {Undef} \cup {Num(i) : i \in 0 .. MaxPayments + 1},
     amount |-> {Undef, Num(0), Num(200), Str("100")} \cup {Num(a) : a \in PaymentAmounts},
     sign_time |-> {Undef, Str(SignTimeText)},
     error |-> {Undef, Num(0), Num(0 - 9), Num(0 - 5), Num(5)},
     action |-> {Undef, Num(ACTION_PREPARE), Num(ACTION_COMPLETE), Num(2)}]

FieldNames == DOMAIN FieldValues

\* every combination of field values, unsigned
UnsignedBodies ==
    [click_trans_id : FieldValues.click_trans_id, service_id : FieldValues.service_id,
     merchant_trans_id : FieldValues.merchant_trans_id,
     merchant_prepare_id : FieldValues.merchant_prepare_id,
     amount : FieldValues.amount, sign_time : FieldValues.sign_time,
     error : FieldValues.error, action : FieldValues.action]

\* the callback the gateway sends for payment i
WellFormed(op, i, amount) ==
    [click_trans_id |-> Num(7), service_id |-> Num(ConfigServiceId),
     merchant_trans_id |-> Str(MerchantTransIdOf(i)),
     merchant_prepare_id |-> IF op = "complete" THEN Num(i) ELSE Undef,
     amount |-> Num(amount), sign_time |-> Str(SignTimeText), error |-> Undef,
     action |-> Num(IF op = "complete" THEN ACTION_COMPLETE ELSE ACTION_PREPARE)]

\* who signed the body: the gateway, nobody, or someone without the secret
Signers == {"gateway", "nobody", "forger"}

Signed(op, f, signer) ==
    LET key == IF signer = "gateway" THEN ConfigSecretKey ELSE "guess"
        sig == IF op = "complete" THEN CompleteSignature(f, key)
                                  ELSE PrepareSignature(f, key)
    IN  [click_trans_id |-> f.click_trans_id, service_id |-> f.service_id,
         merchant_trans_id |-> f.merchant_trans_id,
         merchant_prepare_id |-> f.merchant_prepare_id, amount |-> f.amount,
         sign_time |-> f.sign_time, error |-> f.error, action |-> f.action,
         sign_string |-> IF signer = "nobody" THEN Undef ELSE Str(sig)]

Deviations(f, signer, base) ==
    Cardinality({n \in FieldNames : f[n] # base[n]})
        + (IF signer = "gateway" THEN 0 ELSE 1)

BodiesWithin(op, k) ==
    {Signed(op, x[1], x[2]) :
        x \in {y \in UnsignedBodies \X Signers :
                \E i \in PaymentIds, a \in PaymentAmounts :
                    Deviations(y[1], y[2], WellFormed(op, i, a)) <= k}}

PrepareBodies == BodiesWithin("prepare", MaxDeviations)
CompleteBodies == BodiesWithin("complete", MaxDeviations)


(***************************************************************************)
(* Requests and their handling from receipt to response.                    *)
(***************************************************************************)
NoBody == Signed("prepare", [n \in FieldNames |-> Undef], "nobody")
NoGateway == [failed |-> FALSE, payment_id |-> Undef, payment_status |-> Undef]

Request(op, body, id, gw) == [op |-> op, body |-> body, id |-> id, gw |-> gw]
NoRequest == Request("none", NoBody, 0, NoGateway)

PrepareRequest(body) == Request("prepare", body, 0, NoGateway)
CompleteRequest(body) == Request("complete", body, 0, NoGateway)
SyncRequest(id, gw) == Request("sync", NoBody, id, gw)
ReverseRequest(id, failed) ==
    Request("reverse", NoBody, id, [NoGateway EXCEPT !.failed = failed])
\* the return page carries the merchant transaction id as transaction_param
ReturnRequest(mti, gw) ==
    Request("return", [NoBody EXCEPT !.merchant_trans_id = mti], 0, gw)

\* the action values sent to the unified endpoint: absent, null, numbers, texts
SingleActionValues ==
    {Undef, Null, Num(ACTION_PREPARE), Num(ACTION_COMPLETE), Num(2),
     Str("0"), Str("1"), Str(""), Str("x")}

\* the bodies sent to the unified endpoint: the empty body, and the callbacks
\* of either kind, changed in at most one place, with any of those actions
SingleBodies ==
    {NoBody} \cup
    {[b EXCEPT !.action = a] :
        b \in BodiesWithin("prepare", 1) \cup BodiesWithin("complete", 1),
        a \in SingleActionValues}

SingleRequest(body) == Request("single", body, 0, NoGateway)

\* what the handler of `req` decides: its answer, and its store write if any
Decision(req, pays) ==
    CASE req.op = "prepare" -> ClickPrepareDecision(req.body, pays)
      [] req.op = "complete" -> ClickCompleteDecision(req.body, pays)
      [] req.op = "single" -> ClickSingleEndpointDecision(req.body, pays)
      [] req.op = "sync" -> SyncDecision(GetPaymentById(pays, req.id), req.gw)
      [] req.op = "reverse" -> ReverseDecision(GetPaymentById(pays, req.id), req.gw.failed)
      [] req.op = "return" ->
            ReturnDecision(GetPaymentByMerchantTransId(pays, req.body.merchant_trans_id),
                           req.gw)

\* one delivery handled with nothing else running: the response, the table
\* after it, and whether the handler's write took effect
Handled(req, pays) ==
    LET d == Decision(req, pays) IN
    [reply |-> d.reply, table |-> TableAfter(d, pays), applied |-> Applied(d, pays)]

\* createPayment / quickPay
CreatePayment(pays, amount) == Append(pays, NewPayment(Len(pays) + 1, amount))

\* the response being sent by the concurrent system
Sent(op, d, applied) == [op |-> op, d |-> d, applied |-> applied]
NoDecision == Answer(Other("none"))
NoOutbox == Sent("none", NoDecision, FALSE)

Init ==
    /\ payments = <<>>
    /\ workers = EmptyBag
    /\ outbox = NoOutbox
    /\ inbox = NoRequest
    /\ trail = <<>>
    /\ before = <<>>

(***************************************************************************)
(* The sequential system: one request at a time, each handled from receipt  *)
(* to response before the next is delivered.                                *)
(***************************************************************************)
\* a request arrives only when the previous exchange is over
Ready == inbox = NoRequest

SeqFrame == UNCHANGED <<workers, outbox>>

SeqCreatePayment ==
    /\ Ready
    /\ Len(payments) < MaxPayments
    /\ \E amount \in PaymentAmounts :
         /\ payments' = CreatePayment(payments, amount)
         /\ inbox' = Request("create", NoBody, Len(payments) + 1, NoGateway)
         /\ trail' = <<[reply |-> Other("created"), table |-> payments',
                        applied |-> TRUE]>>
    /\ before' = payments
    /\ SeqFrame

Deliver(req) ==
    LET h == Handled(req, payments) IN
    /\ inbox' = req
    /\ before' = payments
    /\ trail' = <<h>>
    /\ payments' = h.table
    /\ SeqFrame

SeqClickPrepare ==
    /\ Ready
    /\ \E body \in PrepareBodies : Deliver(PrepareRequest(body))

SeqClickComplete ==
    /\ Ready
    /\ \E body \in CompleteBodies : Deliver(CompleteRequest(body))

SeqSync ==
    /\ Ready
    /\ \E id \in 1 .. MaxPayments + 1, gw \in GatewayAnswers : Deliver(SyncRequest(id, gw))

SeqReturn ==
    /\ Ready
    /\ \E mti \in FieldValues.merchant_trans_id, gw \in GatewayAnswers :
        Deliver(ReturnRequest(mti, gw))

SeqReverse ==
    /\ Ready
    /\ \E id \in 1 .. MaxPayments + 1, failed \in BOOLEAN :
        Deliver(ReverseRequest(id, failed))

SeqClickSingleEndpoint ==
    /\ Ready
    /\ \E body \in SingleBodies : Deliver(SingleRequest(body))

\* the gateway delivers the identical callback once more
SeqRedeliver ==
    /\ inbox.op \in {"prepare", "complete"}
    /\ Len(trail) = 1
    /\ LET h == Handled(inbox, payments) IN
         trail' = Append(trail, h) /\ payments' = h.table
    /\ UNCHANGED <<inbox, before>>
    /\ SeqFrame

\* the exchange is over; the next request may come
SeqDone ==
    /\ inbox # NoRequest
    /\ inbox' = NoRequest
    /\ trail' = <<>>
    /\ before' = payments
    /\ UNCHANGED payments
    /\ SeqFrame

SeqNext ==
    \/ SeqCreatePayment
    \/ SeqClickPrepare
    \/ SeqClickComplete
    \/ SeqSync
    \/ SeqReturn
    \/ SeqReverse
    \/ SeqClickSingleEndpoint
    \/ SeqRedeliver
    \/ SeqDone

SeqSpec == Init /\ [][SeqNext]_vars

(***************************************************************************)
(* The concurrent system.  Handlers interleave at their awaits: the first   *)
(* step of a handler runs its checks and its store lookup; a handler that   *)
(* goes on to the gateway or to the store write is in flight until that     *)
(* call returns.  Handlers are anonymous, so the ones in flight are a bag.  *)
(* A response is sent before anything else runs (one event loop).  The      *)
(* callbacks delivered here are the well-formed ones of the payments,       *)
(* changed in at most one place.                                            *)
(***************************************************************************)
RacePrepareBodies == BodiesWithin("prepare", 1)
RaceCompleteBodies == BodiesWithin("complete", 1)

\* a handler awaiting the gateway (with the id of the row it looked up) or
\* the store (with the write it decided on)
\* the status of the row as the handler read it (its local `payment`)
Seen(id) == GetPaymentById(payments, id).status

\* a handler awaiting the gateway uses only the id of the row it read
AwaitGateway(op, id) ==
    [pc |-> "gateway", op |-> op, id |-> id, d |-> NoDecision, seen |-> "NONE"]
AwaitStore(op, d) ==
    [pc |-> "store", op |-> op, id |-> d.id, d |-> d, seen |-> Seen(d.id)]

InFlight == BagToSet(workers)

\* nothing is being sent, so the event loop runs the next callback
Quiet == outbox = NoOutbox

\* a new request is taken while fewer than MaxWorkers handlers are in flight
Admit == Quiet /\ BagCardinality(workers) < MaxWorkers

Frame == UNCHANGED <<inbox, trail, before>>

\* the handler answers at once
AnswerNow(op, d) ==
    /\ outbox' = Sent(op, d, FALSE)
    /\ UNCHANGED <<payments, workers>>
    /\ Frame

\* the handler goes in flight as h
Suspend(h) ==
    /\ workers' = workers (+) SetToBag({h})
    /\ UNCHANGED <<payments, outbox>>
    /\ Frame

\* the handler answers, or goes in flight for the write it decided on
Proceed(op, d) == IF d.write THEN Suspend(AwaitStore(op, d)) ELSE AnswerNow(op, d)

\* the handler in flight h resumes, makes the write of d if any, and answers
Resume(h, d) ==
    /\ workers' = workers (-) SetToBag({h})
    /\ payments' = TableAfter(d, payments)
    /\ outbox' = Sent(h.op, d, Applied(d, payments))
    /\ Frame

CreatePaymentStep ==
    /\ Quiet
    /\ Len(payments) < MaxPayments
    /\ \E amount \in PaymentAmounts : payments' = CreatePayment(payments, amount)
    /\ UNCHANGED <<workers, outbox>>
    /\ Frame

\* clickPrepare: its checks, its one lookup and its answer
ClickPrepare ==
    /\ Admit
    /\ \E d \in {ClickPrepareDecision(body, payments) : body \in RacePrepareBodies} :
         Proceed("prepare", d)

\* clickComplete up to its answer or to the await of its store write
ClickCompleteRead ==
    /\ Admit
    /\ \E d \in {ClickCompleteDecision(body, payments) : body \in RaceCompleteBodies} :
         Proceed("complete", d)

\* await paymentRepo.updatePaymentStatusById(...) of clickComplete, and its answer
StoreWrite ==
    /\ Quiet
    /\ \E h \in InFlight : h.pc = "store" /\ Resume(h, h.d)

\* syncPaymentStatusFromClick: the lookup by id
SyncRead ==
    /\ Admit
    /\ \E id \in 1 .. MaxPayments + 1 :
         LET payment == GetPaymentById(payments, id) IN
         IF payment = NoPayment THEN AnswerNow("sync", SyncDecision(payment, NoGateway))
         ELSE Suspend(AwaitGateway("sync", payment.id))

\* syncPaymentStatusFromClick: the gateway's answer, the write and the response
SyncFinish ==
    /\ Quiet
    /\ \E h \in InFlight, gw \in GatewayAnswers :
         h.op = "sync" /\ Resume(h, SyncAfterQuery(h.id, gw))

\* clickReturnCallback: the lookup by transaction_param
ReturnRead ==
    /\ Admit
    /\ \E mti \in FieldValues.merchant_trans_id :
         LET payment == GetPaymentByMerchantTransId(payments, mti) IN
         IF payment = NoPayment THEN AnswerNow("return", ReturnDecision(payment, NoGateway))
         ELSE Suspend(AwaitGateway("return", payment.id))

\* clickReturnCallback: the gateway's answer, the write and the page
ReturnFinish ==
    /\ Quiet
    /\ \E h \in InFlight, gw \in GatewayAnswers :
         h.op = "return" /\ Resume(h, ReturnAfterQuery(h.id, gw))

\* reversePayment: the lookup by id and the check of click_payment_id
ReverseRead ==
    /\ Admit
    /\ \E id \in 1 .. MaxPayments + 1 :
         LET payment == GetPaymentById(payments, id) IN
         IF ReverseRefusal(payment).kind # "none"
         THEN AnswerNow("reverse", Answer(ReverseRefusal(payment)))
         ELSE Suspend(AwaitGateway("reverse", payment.id))

\* reversePayment: the gateway's answer, the write and the response
ReverseFinish ==
    /\ Quiet
    /\ \E h \in InFlight, failed \in BOOLEAN :
         h.op = "reverse" /\ Resume(h, ReverseAfterCall(h.id, failed))

\* clickSingleEndpoint: the handler chosen by the body's action runs as above
ClickSingleEndpoint ==
    /\ Admit
    /\ \E x \in {<<ClickSingleEndpointRoute(body), ClickSingleEndpointDecision(body, payments)>> :
                    body \in RacePrepareBodies \cup RaceCompleteBodies} :
         Proceed(x[1], x[2])

\* getPayment
GetPayment ==
    /\ Admit
    /\ \E id \in 1 .. MaxPayments + 1 :
         AnswerNow("getPayment", GetPaymentDecision(GetPaymentById(payments, id)))

\* redirectToClick
RedirectToClick ==
    /\ Admit
    /\ \E id \in 1 .. MaxPayments + 1 :
         AnswerNow("redirect", RedirectToClickDecision(GetPaymentById(payments, id)))

\* createInvoice
CreateInvoice ==
    /\ Admit
    /\ \E failed \in BOOLEAN : AnswerNow("createInvoice", InvoiceDecision(failed))

\* getInvoiceStatus
GetInvoiceStatus ==
    /\ Admit
    /\ \E failed \in BOOLEAN : AnswerNow("getInvoiceStatus", InvoiceDecision(failed))

\* the response has been sent
Respond ==
    /\ ~Quiet
    /\ outbox' = NoOutbox
    /\ UNCHANGED <<payments, workers>>
    /\ Frame

Next ==
    \/ CreatePaymentStep
    \/ ClickPrepare
    \/ ClickCompleteRead
    \/ StoreWrite
    \/ SyncRead
    \/ SyncFinish
    \/ ReturnRead
    \/ ReturnFinish
    \/ ReverseRead
    \/ ReverseFinish
    \/ ClickSingleEndpoint
    \/ GetPayment
    \/ RedirectToClick
    \/ CreateInvoice
    \/ GetInvoiceStatus
    \/ Respond

Spec == Init /\ [][Next]_vars

(***************************************************************************)
(* Properties.                                                              *)
(***************************************************************************)
\* the response being sent is the answer of a COMPLETE handler that went to
\* the store to mark payment d.id PAID
SentPaidWrite ==
    /\ outbox.op = "complete"
    /\ outbox.d.write
    /\ outbox.d.status = "PAID"

\* ... and it raced with another COMPLETE: the row was marked PAID, with a
\* gateway id taken from a callback, after this handler had read it
RacedWithComplete ==
    /\ SentPaidWrite
    /\ ~outbox.applied
    /\ payments[outbox.d.id].status = "PAID"
    /\ payments[outbox.d.id].click_payment_id = Num(ToNumber(outbox.d.clickPaymentId).n)

\* C1: of two COMPLETE callbacks for one PENDING payment handled concurrently,
\* the one whose PAID write takes effect answers error=0 and the other one
\* answers error=-4: a COMPLETE handler answers error=0 only if its own write
\* made the payment PAID, and no PAID write takes effect twice.
C1_OnePaidOneAlreadyProcessed ==
    /\ (SentPaidWrite /\ outbox.applied) => outbox.d.reply.error = 0
    /\ RacedWithComplete => outbox.d.reply.error = -4

\* C1, the part that holds: the PAID write of a COMPLETE that lost the race
\* does not take effect (the row is as the winner left it)
C1_NoSecondPaidWrite ==
    [][(outbox'.op = "complete" /\ outbox'.d.write /\ payments # payments')
          => \A i \in DOMAIN payments : payments[i].status \notin TerminalStatuses
                                          \/ payments'[i] = payments[i]]_vars

\* the witness of C1: a COMPLETE that lost the race to another COMPLETE answers
C1_Witness == RacedWithComplete

\* C2: a COMPLETE answered error=0, delivered again unchanged with nothing in
\* between, is answered error=-4, and the table after the second delivery is
\* the table after the first.
C2_ReplayAlreadyProcessed ==
    (/\ inbox.op = "complete"
     /\ Len(trail) = 2
     /\ trail[1].reply.kind = "click"
     /\ trail[1].reply.error = 0)
        => /\ trail[2].reply.kind = "click"
           /\ trail[2].reply.error = -4
           /\ trail[2].table = trail[1].table

\* C2 for a COMPLETE whose write took effect
C2_ReplayAfterPaid ==
    (/\ inbox.op = "complete"
     /\ Len(trail) = 2
     /\ trail[1].reply.kind = "click"
     /\ trail[1].reply.error = 0
     /\ trail[1].applied)
        => /\ trail[2].reply.kind = "click"
           /\ trail[2].reply.error = -4
           /\ trail[2].table = trail[1].table

\* C3: once a payment is PAID, CANCELED or FAILED its status never changes,
\* whatever callback, synchronization, return page or reversal runs.
C3_TerminalIsFinal ==
    [][\A i \in DOMAIN payments :
          payments[i].status \in TerminalStatuses
             => payments'[i].status = payments[i].status]_vars

\* a handler wrote to a payment that was already terminal
C3_Witness ==
    /\ outbox.d.write
    /\ ~outbox.applied
    /\ payments[outbox.d.id].status \in TerminalStatuses
    /\ payments[outbox.d.id].status # outbox.d.status

(***************************************************************************)
(* The words of the callback contract, for stating the properties of the    *)
(* sequential system.                                                       *)
(***************************************************************************)
\* the deliveries of the request in the inbox that have been handled
Deliveries == IF inbox.op \in {"prepare", "complete"} THEN 1 .. Len(trail) ELSE {}

\* the table before and after the i-th delivery, and the response to it
TableBefore(i) == IF i = 1 THEN before ELSE trail[i - 1].table
TableAfterDelivery(i) == trail[i].table
ReplyTo(i) == trail[i].reply

\* the field is absent from the body
Absent(v) == v.t = "undef"

\* the field is a number, or the text of one, equal to k
NumericallyEqual(v, k) == ToNumber(v) = Finite(k)

\* sign_string is the digest of the body's own fields and the shared secret
ValidSignature(op, body) ==
    /\ body.sign_string.t = "str"
    /\ body.sign_string.s = IF op = "complete" THEN CompleteSignature(body, ConfigSecretKey)
                            ELSE PrepareSignature(body, ConfigSecretKey)

\* the payment the body's merchant_trans_id names, if any
Named(body, pays) == GetPaymentByMerchantTransId(pays, body.merchant_trans_id)
NamesPayment(body, pays) == Named(body, pays) # NoPayment

\* the body carries a nonzero provider error code
HasProviderError(body) == ~Absent(body.error) /\ ~NumericallyEqual(body.error, 0)

\* the response is the Click body with this error code
Rejects(r, code) == r.kind = "click" /\ r.error = code

\* the checks of the handler of `op` that come before its signature check
PassesFieldChecks(op, body) ==
    /\ IF op = "complete" THEN ~CompleteMissingParameters(body)
                          ELSE ~PrepareMissingParameters(body)
    /\ ~InvalidServiceId(body)
    /\ ~InvalidAction(body, IF op = "complete" THEN ACTION_COMPLETE ELSE ACTION_PREPARE)

\* C4 as claimed: a PREPARE or COMPLETE whose sign_string is not the digest of
\* its fields is answered error=-1 whatever its other fields are, and changes
\* no payment.
C4_BadSignatureAlwaysMinusOne ==
    \A i \in Deliveries :
        ~ValidSignature(inbox.op, inbox.body)
            => Rejects(ReplyTo(i), -1) /\ TableAfterDelivery(i) = TableBefore(i)

\* C4 as amended: a PREPARE or COMPLETE that passes the required-field,
\* service_id and action checks and whose sign_string is not the digest of its
\* fields is answered error=-1 and changes no payment.
C4_BadSignatureAfterFieldChecks ==
    \A i \in Deliveries :
        (PassesFieldChecks(inbox.op, inbox.body) /\ ~ValidSignature(inbox.op, inbox.body))
            => Rejects(ReplyTo(i), -1) /\ TableAfterDelivery(i) = TableBefore(i)

\* a forged COMPLETE for a PENDING payment, otherwise well-formed, was rejected
C4_Witness ==
    /\ inbox.op = "complete"
    /\ Len(trail) = 1
    /\ PassesFieldChecks(inbox.op, inbox.body)
    /\ inbox.body.sign_string.t = "str"
    /\ ~ValidSignature(inbox.op, inbox.body)
    /\ NamesPayment(inbox.body, before)
    /\ Named(inbox.body, before).status = "PENDING"
    /\ Rejects(ReplyTo(1), -1)

\* C5: a PREPARE, whatever its fields and its outcome, alone or interleaved
\* with other handlers, leaves every payment as it was.
C5_PrepareWritesNothing ==
    [][(outbox'.op = "prepare" /\ outbox' # outbox) => payments' = payments]_vars

\* a PREPARE was answered error=0 while another handler was in flight
C5_Witness ==
    /\ outbox.op = "prepare"
    /\ Rejects(outbox.d.reply, 0)
    /\ workers # EmptyBag

\* the preconditions of C6: a complete, well-formed, signed COMPLETE for a
\* PENDING payment
WellFormedComplete(body, pays) ==
    /\ \A n \in FieldNames \ {"error"} : ~Absent(body[n])
    /\ NumericallyEqual(body.service_id, ConfigServiceId)
    /\ NumericallyEqual(body.action, ACTION_COMPLETE)
    /\ ValidSignature("complete", body)
    /\ NamesPayment(body, pays)
    /\ Named(body, pays).status = "PENDING"
    /\ NumericallyEqual(body.merchant_prepare_id, Named(body, pays).id)
    /\ ~HasProviderError(body)
    /\ NumericallyEqual(body.amount, Named(body, pays).amount)

PassesCompleteChecks(body, pays) ==
    /\ PassesFieldChecks("complete", body)
    /\ ValidSignature("complete", body)
    /\ NamesPayment(body, pays)
    /\ NumericallyEqual(body.merchant_prepare_id, Named(body, pays).id)
    /\ Named(body, pays).status # "PAID"

\* what C7 says of the delivery i of a COMPLETE with provider error code e for
\* payment id: the status by the sign of e, the gateway id, and the answer
ProviderErrorRelayed(i, id, e) ==
    /\ TableAfterDelivery(i)[id].status = (IF e < 0 THEN "CANCELED" ELSE "FAILED")
    /\ TableAfterDelivery(i)[id].click_payment_id.t = "num"
    /\ NumericallyEqual(inbox.body.click_trans_id, TableAfterDelivery(i)[id].click_payment_id.n)
    /\ Rejects(ReplyTo(i), e)
    /\ ReplyTo(i).merchant_confirm_id = id

\* C7 as claimed: a COMPLETE that passes those checks and carries a nonzero
\* provider error sets the payment CANCELED (negative code) or FAILED (positive
\* code), stores click_trans_id as click_payment_id and answers the provider's
\* code with merchant_confirm_id the payment's id, whatever its amount.
C7_ProviderErrorSetsStatus ==
    \A i \in Deliveries :
        (/\ inbox.op = "complete"
         /\ PassesCompleteChecks(inbox.body, TableBefore(i))
         /\ HasProviderError(inbox.body))
            => ProviderErrorRelayed(i, Named(inbox.body, TableBefore(i)).id,
                                    ToNumber(inbox.body.error).n)

\* C7 as amended: the same, for a payment that is PENDING when the handler's
\* write reaches the store.
C7_ProviderErrorOnPending ==
    \A i \in Deliveries :
        (/\ inbox.op = "complete"
         /\ PassesCompleteChecks(inbox.body, TableBefore(i))
         /\ Named(inbox.body, TableBefore(i)).status = "PENDING"
         /\ HasProviderError(inbox.body))
            => ProviderErrorRelayed(i, Named(inbox.body, TableBefore(i)).id,
                                    ToNumber(inbox.body.error).n)

\* a provider error with a wrong amount moved a PENDING payment to CANCELED
C7_Witness ==
    /\ inbox.op = "complete"
    /\ Len(trail) = 1
    /\ PassesCompleteChecks(inbox.body, before)
    /\ Named(inbox.body, before).status = "PENDING"
    /\ HasProviderError(inbox.body)
    /\ ToNumber(inbox.body.error).n < 0
    /\ ~NumericallyEqual(inbox.body.amount, Named(inbox.body, before).amount)
    /\ payments[Named(inbox.body, before).id].status = "CANCELED"

\* C8: a COMPLETE that passes the earlier checks, carries no provider error and
\* whose amount is not numerically the payment's is answered error=-2 and
\* leaves the payment's status and click_payment_id as they were.
C8_AmountMismatch ==
    \A i \in Deliveries :
        (/\ inbox.op = "complete"
         /\ PassesCompleteChecks(inbox.body, TableBefore(i))
         /\ ~HasProviderError(inbox.body)
         /\ ~NumericallyEqual(inbox.body.amount, Named(inbox.body, TableBefore(i)).amount))
            => /\ Rejects(ReplyTo(i), -2)
               /\ TableAfterDelivery(i) = TableBefore(i)

\* a COMPLETE for a PENDING payment with another amount was answered
C8_Witness ==
    /\ inbox.op = "complete"
    /\ Len(trail) = 1
    /\ PassesCompleteChecks(inbox.body, before)
    /\ Named(inbox.body, before).status = "PENDING"
    /\ ~HasProviderError(inbox.body)
    /\ inbox.body.amount.t = "num"
    /\ ~NumericallyEqual(inbox.body.amount, Named(inbox.body, before).amount)
    /\ Rejects(ReplyTo(1), -2)

\* C9: a PREPARE or COMPLETE that passes the required-field, service_id, action
\* and signature checks and names no stored payment is answered error=-5, and
\* no payment is created or changed.
C9_UnknownTransaction ==
    \A i \in Deliveries :
        (/\ PassesFieldChecks(inbox.op, inbox.body)
         /\ ValidSignature(inbox.op, inbox.body)
         /\ ~NamesPayment(inbox.body, TableBefore(i)))
            => /\ Rejects(ReplyTo(i), -5)
               /\ TableAfterDelivery(i) = TableBefore(i)

\* a signed PREPARE for an unknown transaction was answered while a payment exists
C9_Witness ==
    /\ inbox.op = "prepare"
    /\ Len(trail) = 1
    /\ PassesFieldChecks(inbox.op, inbox.body)
    /\ ValidSignature(inbox.op, inbox.body)
    /\ ~NamesPayment(inbox.body, before)
    /\ Len(before) > 0
    /\ Rejects(ReplyTo(1), -5)

\* the error code C10 gives a PREPARE: that of the first failing check
FirstFailingPrepareCheck(body, pays) ==
    IF \E n \in {"click_trans_id", "service_id", "merchant_trans_id", "amount",
                 "sign_time", "sign_string", "action"} : Absent(body[n]) THEN -8
    ELSE IF ~NumericallyEqual(body.service_id, ConfigServiceId) THEN -8
    ELSE IF ~NumericallyEqual(body.action, ACTION_PREPARE) THEN -3
    ELSE IF ~ValidSignature("prepare", body) THEN -1
    ELSE IF ~NamesPayment(body, pays) THEN -5
    ELSE IF Named(body, pays).status = "PAID" THEN -4
    ELSE IF ~NumericallyEqual(body.amount, Named(body, pays).amount) THEN -2
    ELSE 0

\* C10: the error code of the response to a PREPARE is that of the first
\* failing check, in the order: a required field (click_trans_id, service_id,
\* merchant_trans_id, amount, sign_time, sign_string, action) absent -> -8,
\* service_id -> -8, action -> -3, signature -> -1, payment -> -5, PAID -> -4,
\* amount -> -2, and 0 when none fails.
C10_PrepareFirstFailingCheck ==
    \A i \in Deliveries :
        inbox.op = "prepare"
            => Rejects(ReplyTo(i), FirstFailingPrepareCheck(inbox.body, TableBefore(i)))

\* the outcome C11 gives a COMPLETE: the error code of the first failing
\* check, 1 for the provider-error path, 0 when no check fails
FirstFailingCompleteCheck(body, pays) ==
    IF \E n \in {"click_trans_id", "service_id", "merchant_trans_id",
                 "merchant_prepare_id", "action"} : Absent(body[n]) THEN -8
    ELSE IF ~NumericallyEqual(body.service_id, ConfigServiceId) THEN -8
    ELSE IF ~NumericallyEqual(body.action, ACTION_COMPLETE) THEN -3
    ELSE IF ~ValidSignature("complete", body) THEN -1
    ELSE IF ~NamesPayment(body, pays) THEN -5
    ELSE IF ~NumericallyEqual(body.merchant_prepare_id, Named(body, pays).id) THEN -5
    ELSE IF Named(body, pays).status = "PAID" THEN -4
    ELSE IF HasProviderError(body) THEN 1
    ELSE IF ~NumericallyEqual(body.amount, Named(body, pays).amount) THEN -2
    ELSE 0

\* C11: the outcome of a COMPLETE is decided by the first failing check, in
\* the order: a required field (click_trans_id, service_id, merchant_trans_id,
\* merchant_prepare_id, action) absent -> -8, service_id -> -8, action -> -3,
\* signature -> -1, payment -> -5, prepare id -> -5, PAID -> -4, provider
\* error -> the provider's code, amount -> -2; every rejection leaves the
\* table as it was.
C11_CompleteFirstFailingCheck ==
    \A i \in Deliveries :
        inbox.op = "complete" =>
            LET c == FirstFailingCompleteCheck(inbox.body, TableBefore(i)) IN
            /\ c < 0 => /\ Rejects(ReplyTo(i), c)
                        /\ TableAfterDelivery(i) = TableBefore(i)
            /\ c = 1 => /\ ReplyTo(i).kind = "click"
                        /\ NumericallyEqual(inbox.body.error, ReplyTo(i).error)

\* a COMPLETE whose merchant_prepare_id is the number 0 has been answered
C11_Witness ==
    /\ inbox.op = "complete"
    /\ Len(trail) > 0
    /\ inbox.body.merchant_prepare_id = Num(0)
    /\ ~Absent(inbox.body.click_trans_id)
    /\ ValidSignature("complete", inbox.body)
    /\ NamesPayment(inbox.body, before)

\* the response being sent is that of a status synchronization (the sync
\* operation or the return page) that has just finished
SyncJustFinished == outbox'.op \in {"sync", "return"} /\ outbox' # outbox

\* C12: whatever payment_status the gateway returns, a status synchronization
\* (sync operation or return page) never changes the status of a payment that
\* is PAID; in particular it never moves it back to PENDING.
C12_SyncKeepsPaid ==
    [][SyncJustFinished =>
          \A i \in DOMAIN payments :
              payments[i].status = "PAID" => payments'[i].status = "PAID"]_vars

\* a synchronization went to the store to write PENDING (the gateway
\* reported payment_status 0) on a payment that is PAID
C12_Witness ==
    /\ outbox.op \in {"sync", "return"}
    /\ outbox.d.write
    /\ outbox.d.status = "PENDING"
    /\ payments[outbox.d.id].status = "PAID"

\* the COMPLETE handler h, in flight for its store write, resumes in this
\* step, and the stored status is no longer the one it read
StaleCompleteResumes(h) ==
    /\ h.pc = "store"
    /\ h.op = "complete"
    /\ workers' = workers (-) SetToBag({h})
    /\ payments[h.id].status # h.seen

\* C13: when the stored status changed between a COMPLETE handler's read and
\* its write, the write does not take effect and the handler answers error=-4
\* (not 0, not a provider code, not a server error).
C13_StaleWriteAnsweredAlreadyProcessed ==
    [][\A h \in InFlight :
          StaleCompleteResumes(h)
             => /\ payments' = payments
                /\ Rejects(outbox'.d.reply, -4)]_vars

\* C13, the part that holds: the write of a COMPLETE handler whose read is
\* stale does not take effect, so a payment leaves PENDING at most once
C13_StaleWriteRefused ==
    [][/\ \A h \in InFlight : StaleCompleteResumes(h) => payments' = payments
       /\ \A i \in DOMAIN payments :
             payments[i].status # "PENDING" => payments'[i].status = payments[i].status]_vars

\* a COMPLETE handler has answered after a write that found the stored status
\* changed since its read (by a synchronization, a reversal or another COMPLETE)
C13_Witness ==
    /\ outbox.op = "complete"
    /\ outbox.d.write
    /\ ~outbox.applied
    /\ payments[outbox.d.id].status = "PAID"

\* C14: click_payment_id is null when the payment is created, and once it is
\* not null its value never changes and never returns to null (it is
\* assigned at most once).
C14_ClickPaymentIdAssignedOnce ==
    [][/\ \A i \in DOMAIN payments' :
             i \notin DOMAIN payments => payments'[i].click_payment_id = Undef
       /\ \A i \in DOMAIN payments :
             payments[i].click_payment_id # Undef
                => payments'[i].click_payment_id = payments[i].click_payment_id]_vars

\* C14, the part that holds: click_payment_id is null at creation and never
\* returns to null
C14_ClickPaymentIdNeverCleared ==
    [][/\ \A i \in DOMAIN payments' :
             i \notin DOMAIN payments => payments'[i].click_payment_id = Undef
       /\ \A i \in DOMAIN payments :
             payments[i].click_payment_id # Undef
                => payments'[i].click_payment_id # Undef]_vars

\* a payment still PENDING carries the gateway's payment_id, stored by a
\* synchronization
C14_Witness ==
    \E i \in DOMAIN payments :
        /\ payments[i].status = "PENDING"
        /\ payments[i].click_payment_id \in GatewayPaymentIds \ {Undef}

\* the request in the inbox is a synchronization, a return page or a reversal
\* that has been handled and whose gateway call failed
GatewayCallFailed ==
    /\ inbox.op \in {"sync", "return", "reverse"}
    /\ Len(trail) = 1
    /\ inbox.gw.failed

\* C15: when the gateway call of a synchronization, of the return page or of a
\* reversal fails, every payment's status and click_payment_id are as they
\* were before the operation started.
C15_FailedGatewayCallWritesNothing ==
    GatewayCallFailed =>
        /\ DOMAIN payments = DOMAIN before
        /\ \A i \in DOMAIN before :
              /\ payments[i].status = before[i].status
              /\ payments[i].click_payment_id = before[i].click_payment_id

\* a reversal of a payment that has a click_payment_id made its gateway call,
\* and the call failed
C15_Witness ==
    /\ GatewayCallFailed
    /\ inbox.op = "reverse"
    /\ trail[1].reply = Thrown
    /\ before[inbox.id].status = "PENDING"

\* the status or the click_payment_id of an existing payment changes in this step
PaymentChanges ==
    \E i \in DOMAIN payments :
        \/ payments'[i].status # payments[i].status
        \/ payments'[i].click_payment_id # payments[i].click_payment_id

\* C16: the status and click_payment_id of an existing payment are changed
\* only by a COMPLETE callback or by a status synchronization (sync operation
\* or return page); by no PREPARE, lookup, redirect, invoice creation or
\* status, reversal or rejection of the unified endpoint.
C16_OnlyCompleteAndSyncWrite ==
    [][PaymentChanges => outbox'.op \in {"complete", "sync", "return"}]_vars

\* C16 without the reversal: every other operation but COMPLETE and the
\* synchronizations leaves the payments as they are
C16_ReadersWriteNothing ==
    [][PaymentChanges => outbox'.op \in {"complete", "sync", "return", "reverse"}]_vars

\* a reversal has answered after its write took effect
C16_Witness ==
    /\ outbox.op = "reverse"
    /\ outbox.applied
    /\ payments[outbox.d.id].status = "CANCELED"

\* the PREPARE in the inbox is the valid callback of a PENDING payment of the
\* table `pays`: every required field, the configured service_id, action 0, a
\* valid signature, an amount numerically equal to the payment's
ValidPrepareOfPending(body, pays) ==
    /\ \A n \in {"click_trans_id", "service_id", "merchant_trans_id", "amount",
                 "sign_time", "sign_string", "action"} : ~Absent(body[n])
    /\ NumericallyEqual(body.service_id, ConfigServiceId)
    /\ NumericallyEqual(body.action, ACTION_PREPARE)
    /\ ValidSignature("prepare", body)
    /\ NamesPayment(body, pays)
    /\ Named(body, pays).status = "PENDING"
    /\ NumericallyEqual(body.amount, Named(body, pays).amount)

Synchronized ==
    /\ inbox.op \in {"sync", "return"}
    /\ Len(trail) = 1
    /\ ~inbox.gw.failed

\* the payment that synchronization is about, as it was before it ran
SynchronizedPayment ==
    IF inbox.op = "sync" THEN GetPaymentById(before, inbox.id)
    ELSE GetPaymentByMerchantTransId(before, inbox.body.merchant_trans_id)

\* C18: once a status synchronization of a PENDING payment has run to
\* completion with the gateway reporting payment_status 1, the payment is PAID
\* and its click_payment_id is the payment_id the gateway reported; a
\* synchronization to which the gateway returns no numeric payment_status
\* writes nothing.
C18_SyncReconciles ==
    (Synchronized /\ SynchronizedPayment # NoPayment) =>
        LET id == SynchronizedPayment.id IN
        /\ (inbox.gw.payment_status = Num(1) /\ SynchronizedPayment.status = "PENDING")
              => /\ payments[id].status = "PAID"
                 /\ ~Absent(inbox.gw.payment_id)
                       => payments[id].click_payment_id = inbox.gw.payment_id
        /\ inbox.gw.payment_status.t # "num"
              => payments = before /\ ~trail[1].applied

\* the return page has reconciled a PENDING payment
C18_Witness ==
    /\ Synchronized
    /\ inbox.op = "return"
    /\ SynchronizedPayment.status = "PENDING"
    /\ inbox.gw.payment_status = Num(1)
    /\ payments[SynchronizedPayment.id].status = "PAID"
    /\ payments[SynchronizedPayment.id].click_payment_id = Num(9)

\* payment i becomes PAID in this step
BecomesPaid(i) ==
    /\ payments'[i].status = "PAID"
    /\ i \in DOMAIN payments => payments[i].status # "PAID"

\* the request handled in this step is a COMPLETE (action 1, on its own route
\* or on the unified endpoint) for payment i with a valid signature,
\* merchant_prepare_id equal to i, no provider error and an amount equal to
\* the payment's
HandlesValidComplete(i) ==
    /\ inbox'.op \in {"complete", "single"}
    /\ NumericallyEqual(inbox'.body.action, ACTION_COMPLETE)
    /\ i \in DOMAIN payments
    /\ ValidSignature("complete", inbox'.body)
    /\ Named(inbox'.body, payments) = payments[i]
    /\ NumericallyEqual(inbox'.body.merchant_prepare_id, i)
    /\ ~HasProviderError(inbox'.body)
    /\ NumericallyEqual(inbox'.body.amount, payments[i].amount)

\* the request handled in this step is a status synchronization of payment i
\* to which the gateway reported payment_status 1
HandlesPaidReport(i) ==
    /\ inbox'.op \in {"sync", "return"}
    /\ i \in DOMAIN payments
    /\ ~inbox'.gw.failed
    /\ inbox'.gw.payment_status = Num(1)
    /\ IF inbox'.op = "sync" THEN inbox'.id = i
       ELSE GetPaymentByMerchantTransId(payments, inbox'.body.merchant_trans_id) = payments[i]

\* C19: a payment becomes PAID only by a COMPLETE for it that passed the
\* signature check with merchant_prepare_id equal to its id, no provider error
\* and its amount, or by a gateway status query for it that returned
\* payment_status 1; never by a callback with an invalid signature, a wrong
\* amount or a wrong prepare id, and never by a PREPARE.
C19_PaidOnlyByValidCompleteOrSync ==
    [][\A i \in DOMAIN payments' :
          BecomesPaid(i) => HandlesValidComplete(i) \/ HandlesPaidReport(i)]_vars

\* a payment is PAID with the transaction id of a COMPLETE callback
C19_Witness ==
    /\ inbox.op = "complete"
    /\ Len(trail) > 0
    /\ trail[1].applied
    /\ \E i \in DOMAIN payments :
          /\ before[i].status = "PENDING"
          /\ payments[i].status = "PAID"
          /\ payments[i].click_payment_id = Num(7)

\* the response is a rejection made by clickError: one of the merchant's
\* codes, with no field of the callback echoed (a relayed provider error
\* echoes click_trans_id)
MerchantRejection(r) ==
    /\ r.kind = "click"
    /\ r.error \in {-1, -2, -3, -4, -5, -8}
    /\ r.click_trans_id = Undef

\* a PREPARE or COMPLETE handler (reached directly or through the unified
\* endpoint) answers in this step
CallbackAnswers ==
    /\ outbox' # outbox
    /\ outbox'.op \in {"prepare", "complete", "single"}

\* C20: a PREPARE or COMPLETE answered with one of the merchant's rejection
\* codes -1, -2, -3, -4, -5, -8 made no write to the store, whatever else is
\* in flight.
C20_RejectionWritesNothing ==
    [][(CallbackAnswers /\ MerchantRejection(outbox'.d.reply))
          => /\ ~outbox'.d.write
             /\ payments' = payments]_vars

\* a COMPLETE is rejected as already processed while another handler is in
\* flight
C20_Witness ==
    /\ outbox.op = "complete"
    /\ Rejects(outbox.d.reply, -4)
    /\ MerchantRejection(outbox.d.reply)
    /\ BagCardinality(workers) > 0

\* the body's action converts to the number k
ActionConvertsTo(body, k) == NumericallyEqual(body.action, k)

\* C21: the unified endpoint yields, for every body, the response and the
\* state effect of the PREPARE handler when the body's action converts to the
\* number 0, those of the COMPLETE handler when it converts to 1, and
\* otherwise answers error=-3 and changes nothing.
C21_SingleEndpointDispatches ==
    (inbox.op = "single" /\ Len(trail) = 1) =>
        /\ payments = trail[1].table
        /\ IF ActionConvertsTo(inbox.body, ACTION_PREPARE)
           THEN trail[1] = Handled(PrepareRequest(inbox.body), before)
           ELSE IF ActionConvertsTo(inbox.body, ACTION_COMPLETE)
           THEN trail[1] = Handled(CompleteRequest(inbox.body), before)
           ELSE Rejects(trail[1].reply, -3) /\ payments = before

\* a COMPLETE whose action is the text "1" came through the unified endpoint
\* and made its payment PAID
C21_Witness ==
    /\ inbox.op = "single"
    /\ Len(trail) = 1
    /\ inbox.body.action = Str("1")
    /\ trail[1].applied
    /\ Rejects(trail[1].reply, 0)
    /\ \E i \in DOMAIN payments :
          before[i].status = "PENDING" /\ payments[i].status = "PAID"

====
